---------------------------- MODULE Spec2Model ----------------------------
(***************************************************************************)
(* A model of goph (src/goph.c), a Gopher client: location parsing         *)
(* (parseurl), title formatting (fmturl), the fetch pipeline (fetch,       *)
(* sendreq, recvcontent), the menu array (menuadd, menuaddline,            *)
(* menuaddtextline, menutrunc, menuclear) and the navigation handlers      *)
(* (gotourl, gotoselector, back, navigate).                                *)
(*                                                                         *)
(* C strings are sequences of one-character strings.  The drawing code     *)
(* (redraw, the scroll offset) holds no state the handlers below read.     *)
(***************************************************************************)
EXTENDS Integers, Sequences, FiniteSets, TLC

VARIABLES
    menu,     \* static Menu menu: the current page
    hist,     \* static Menu hist: the history, hist.pos its cursor
    title,    \* the window title last given to settitle
    sent,     \* the buffers the latest handler call gave to send(), in order
    conn,     \* the socket the latest handler call made: "none", "open", "closed"
    call,     \* the latest handler invocation: its argument and what it did
    log,      \* the history-changing events so far: visits and accepted backs
    url,      \* SpecParse: the location string given to parseurl
    form,     \* SpecParse: the parts the location string was built from
    parsed,   \* SpecParse: <<what parseurl returned>>, or <<>> before the call
    fmt,      \* SpecParse: <<what fmturl made of it>>, or <<>> before the call
    rlines,   \* SpecRecv: the lines of the server's response, by name
    rcuts,    \* SpecRecv: the offsets at which recv splits the byte stream
    rtype,    \* SpecRecv: the item type fetched, which chooses the line handler
    recvd,    \* SpecRecv: <<what recvcontent returned>>, or <<>> before the call
    mline,    \* SpecLine: the line given to menuaddline
    added     \* SpecLine: <<what menuaddline did>>, or <<>> before the call

vars ==
    <<menu, hist, title, sent, conn, call, log, url, form, parsed, fmt,
      rlines, rcuts, rtype, recvd, mline, added>>

navvars == <<menu, hist, title, sent, conn, call, log>>
parsevars == <<url, form, parsed, fmt>>
recvvars == <<rlines, rcuts, rtype, recvd>>
linevars == <<mline, added>>

None == "none"

(***************************************************************************)
(* Bytes                                                                   *)
(***************************************************************************)
CR == "\r"
LF == "\n"
TAB == "\t"
NUL == "NUL"    \* the terminating '\0' of a C string

Digits == <<"0", "1", "2", "3", "4", "5", "6", "7", "8", "9">>

IsDigit(c) == \E i \in 1..10 : Digits[i] = c

DigitVal(c) == (CHOOSE i \in 1..10 : Digits[i] = c) - 1

Min(a, b) == IF a < b THEN a ELSE b

\* the first n elements of s (strndup, snprintf's truncation)
Take(s, n) == SubSeq(s, 1, Min(n, Len(s)))

\* s without its first n elements (pointer advance by n)
Drop(s, n) == SubSeq(s, n + 1, Len(s))

\* strcspn(s, reject): length of the longest prefix of s holding no byte of reject
strcspn(s, reject) ==
    LET hits == { i \in 1..Len(s) : s[i] \in reject }
    IN  IF hits = {} THEN Len(s)
        ELSE (CHOOSE i \in hits : \A j \in hits : i <= j) - 1

\* !strncmp(s, p, strlen(p)): s starts with p
StartsWith(s, p) == Len(s) >= Len(p) /\ SubSeq(s, 1, Len(p)) = p

(***************************************************************************)
(* strtonum(str, minval, maxval, &errstr): an optional sign, then decimal  *)
(* digits to the end of the string, the value within [minval, maxval].     *)
(* The digits are accumulated saturating just above maxval.                *)
(***************************************************************************)
RECURSIVE DecimalValue(_, _, _)
DecimalValue(digits, acc, cap) ==
    IF digits = <<>> THEN acc
    ELSE DecimalValue(Tail(digits), Min(acc * 10 + DigitVal(Head(digits)), cap), cap)

strtonum(str, minval, maxval) ==
    LET neg == str # <<>> /\ Head(str) = "-"
        signed == str # <<>> /\ Head(str) \in {"-", "+"}
        digits == IF signed THEN Tail(str) ELSE str
        mag == DecimalValue(digits, 0, maxval + 1)
        val == IF neg THEN 0 - mag ELSE mag
    IN  IF digits = <<>> \/ \E i \in 1..Len(digits) : ~IsDigit(digits[i])
        THEN [err |-> "invalid", val |-> 0]
        ELSE IF val < minval THEN [err |-> "too small", val |-> 0]
        ELSE IF val > maxval THEN [err |-> "too large", val |-> 0]
        ELSE [err |-> None, val |-> val]

SHRT_MAX == 32767

\* printf's %d of a non-negative int
RECURSIVE itoa(_)
itoa(n) ==
    IF n < 10 THEN <<Digits[n + 1]>>
    ELSE Append(itoa(n \div 10), Digits[(n % 10) + 1])

(***************************************************************************)
(* parseurl and fmturl                                                     *)
(***************************************************************************)
Scheme == <<"g", "o", "p", "h", "e", "r", ":", "/", "/">>

DefaultPort == 70

TitleBufLen == 256    \* char buf[256] in navigate

parseurl(u) ==
    LET u1 == IF StartsWith(u, Scheme) THEN Drop(u, Len(Scheme)) ELSE u
        hostlen == strcspn(u1, {":", "/"})
        hoststr == Take(u1, hostlen)
        u2 == Drop(u1, hostlen)
        hasport == u2 # <<>> /\ Head(u2) = ":"
        u3 == IF hasport THEN Tail(u2) ELSE u2
        portlen == strcspn(u3, {"/"})
        portstr == Take(u3, portlen)
        num == strtonum(portstr, 0, SHRT_MAX)
        portnum == IF hasport THEN num.val ELSE DefaultPort
        u4 == IF hasport THEN Drop(u3, portlen) ELSE u2
        typec == IF u4 # <<>> THEN Head(u4) ELSE "1"
        selstr == IF u4 # <<>> THEN Tail(u4) ELSE u4
    IN  IF hasport /\ num.err # None
        THEN [ret |-> 1]
        ELSE [ret |-> 0, type |-> typec, sel |-> selstr, host |-> hoststr,
              port |-> portnum]

fmturl(buflen, type, sel, host, port) ==
    IF port # 70
    THEN Take(host \o <<":">> \o itoa(port) \o <<"/", type>> \o sel, buflen - 1)
    ELSE Take(host \o <<"/", type>> \o sel, buflen - 1)

(***************************************************************************)
(* SpecParse: a location string built from its parts is parsed, and the    *)
(* result formatted.                                                       *)
(***************************************************************************)
FormHosts == {<<"h">>, <<"e", "x", "a", "m", "p", "l", "e", ".", "c", "o", "m">>}
FormPorts == {<<>>, <<"7", "0">>, <<"7">>, <<"1", "0", "5">>, <<"9", "9", "9", "9", "9">>}
FormTypes == {"1", "0"}
FormSels == {<<>>, <<"x">>, <<"/", "f", "o", "o">>}

Forms ==
    [scheme : BOOLEAN, host : FormHosts, port : FormPorts, path : BOOLEAN,
     type : FormTypes, sel : FormSels]

\* ["gopher://"] host [":" port] ["/" type selector]; port <<>> is no port
BuildUrl(f) ==
    (IF f.scheme THEN Scheme ELSE <<>>) \o f.host
    \o (IF f.port # <<>> THEN <<":">> \o f.port ELSE <<>>)
    \o (IF f.path THEN <<"/", f.type>> \o f.sel ELSE <<>>)

ParseUrl ==
    /\ parsed = <<>>
    /\ parsed' = <<parseurl(url)>>
    /\ UNCHANGED <<url, form, fmt>>
    /\ UNCHANGED <<navvars, recvvars, linevars>>

FmtUrl ==
    /\ parsed # <<>>
    /\ parsed[1].ret = 0
    /\ fmt = <<>>
    /\ fmt' = <<fmturl(TitleBufLen, parsed[1].type, parsed[1].sel, parsed[1].host,
                        parsed[1].port)>>
    /\ UNCHANGED <<url, form, parsed>>
    /\ UNCHANGED <<navvars, recvvars, linevars>>

(***************************************************************************)
(* Menu: the Item array with its length and cursor.  items holds the slots *)
(* 0..len-1, counted from 1 here.  A slot at or past len is not kept: its  *)
(* strings were released by menutrunc or it was never written, and Freed   *)
(* stands for such a slot where len is set past the slots written.  The    *)
(* capacity (cap) only sizes the allocation and is not modelled.           *)
(***************************************************************************)
Freed == [type |-> "freed", name |-> <<>>, sel |-> <<>>, host |-> <<>>, port |-> 0]

EmptyMenu == [items |-> <<>>, len |-> 0, pos |-> 0]

Item(type, name, sel, host, port) ==
    [type |-> type, name |-> name, sel |-> sel, host |-> host, port |-> port]

menuadd(m, type, name, sel, host, port) ==
    [m EXCEPT !.items = Append(m.items, Item(type, name, sel, host, port)),
              !.len = m.len + 1]

menutrunc(m, from) ==
    LET items == [i \in 1..from |-> IF i <= m.len THEN m.items[i] ELSE Freed]
        pos == IF m.pos >= from
               THEN (IF from # 0 THEN from - 1 ELSE 0)
               ELSE m.pos
    IN  [items |-> items, len |-> from, pos |-> pos]

\* menuclear leaving the menu as it is
menuclearKeepsItems(m) == m

menuclear(m) == menutrunc(m, 0)

\* strsep(&p, "\t"): p is <<>> (NULL) or <<string>>; tok likewise
strsep(p) ==
    IF p = <<>> THEN [tok |-> <<>>, rest |-> <<>>]
    ELSE LET n == strcspn(p[1], {TAB})
         IN  [tok |-> <<Take(p[1], n)>>,
              rest |-> IF n < Len(p[1]) THEN <<Drop(p[1], n + 1)>> ELSE <<>>]

\* menuaddline adding the item with port 0 when strtonum rejects the port
menuaddlineAnyPort(m, line) ==
    IF line = <<>> THEN [ret |-> 1, m |-> m]
    ELSE LET type == Head(line)
             name == strsep(<<Tail(line)>>)
             sel == strsep(name.rest)
             host == strsep(sel.rest)
             portstr == strsep(host.rest)
         IN  IF name.tok = <<>> \/ sel.tok = <<>> \/ host.tok = <<>>
                \/ portstr.tok = <<>>
             THEN [ret |-> 1, m |-> m]
             ELSE [ret |-> 0,
                   m |-> menuadd(m, type, name.tok[1], sel.tok[1], host.tok[1],
                                 strtonum(portstr.tok[1], 0, SHRT_MAX).val)]

menuaddline(m, line) ==
    IF line = <<>> THEN [ret |-> 1, m |-> m]
    ELSE LET type == Head(line)
             name == strsep(<<Tail(line)>>)
             sel == strsep(name.rest)
             host == strsep(sel.rest)
             portstr == strsep(host.rest)
         IN  IF name.tok = <<>> \/ sel.tok = <<>> \/ host.tok = <<>>
                \/ portstr.tok = <<>>
             THEN [ret |-> 1, m |-> m]
             ELSE LET num == strtonum(portstr.tok[1], 0, SHRT_MAX)
                  IN  IF num.err # None
                      THEN [ret |-> 1, m |-> m]
                      ELSE [ret |-> 0,
                            m |-> menuadd(m, type, name.tok[1], sel.tok[1],
                                          host.tok[1], num.val)]

NullStr == <<"n", "u", "l", "l">>

menuaddtextline(m, line) ==
    [ret |-> 0, m |-> menuadd(m, "i", line, NullStr, NullStr, 0)]

\* navigate's choice of line handler, applied
linehandler(type, m, line) ==
    IF type = "1" THEN menuaddline(m, line) ELSE menuaddtextline(m, line)

(***************************************************************************)
(* recvcontent.  A response is the chunks recv returns, in order, and how  *)
(* the stream ends after them: err = TRUE is recv returning -1, FALSE is   *)
(* recv returning 0.                                                       *)
(***************************************************************************)
LineBufSize == 512    \* char line[512]

\* the for loop taking the LF after a CR as a line end of its own
RECURSIVE RecvChunkNoSkip(_, _, _, _, _)
RecvChunkNoSkip(buf, i, line, m, type) ==
    IF i > Len(buf) THEN [done |-> FALSE, line |-> line, m |-> m]
    ELSE IF buf[i] = CR \/ buf[i] = LF
    THEN IF line = <<".">>
         THEN [done |-> TRUE, line |-> line, m |-> m]
         ELSE RecvChunkNoSkip(buf, i + 1, <<>>, linehandler(type, m, line).m, type)
    ELSE IF Len(line) < LineBufSize - 1
    THEN RecvChunkNoSkip(buf, i + 1, Append(line, buf[i]), m, type)
    ELSE RecvChunkNoSkip(buf, i + 1, <<>>, m, type)

\* the for loop handing the terminator line to the handler and going on
RECURSIVE RecvChunkNoTerminator(_, _, _, _, _)
RecvChunkNoTerminator(buf, i, line, m, type) ==
    IF i > Len(buf) THEN [done |-> FALSE, line |-> line, m |-> m]
    ELSE IF buf[i] = CR \/ buf[i] = LF
    THEN LET skip == buf[i] = CR /\ i < Len(buf) /\ buf[i + 1] = LF
         IN  RecvChunkNoTerminator(buf, IF skip THEN i + 2 ELSE i + 1, <<>>,
                                   linehandler(type, m, line).m, type)
    ELSE IF Len(line) < LineBufSize - 1
    THEN RecvChunkNoTerminator(buf, i + 1, Append(line, buf[i]), m, type)
    ELSE RecvChunkNoTerminator(buf, i + 1, <<>>, m, type)

\* the for loop over one chunk, from byte i on
RECURSIVE RecvChunk(_, _, _, _, _)
RecvChunk(buf, i, line, m, type) ==
    IF i > Len(buf) THEN [done |-> FALSE, line |-> line, m |-> m]
    ELSE IF buf[i] = CR \/ buf[i] = LF
    THEN IF line = <<".">>
         THEN [done |-> TRUE, line |-> line, m |-> m]
         ELSE LET skip == buf[i] = CR /\ i < Len(buf) /\ buf[i + 1] = LF
              IN  RecvChunk(buf, IF skip THEN i + 2 ELSE i + 1, <<>>,
                            linehandler(type, m, line).m, type)
    ELSE IF Len(line) < LineBufSize - 1
    THEN RecvChunk(buf, i + 1, Append(line, buf[i]), m, type)
    ELSE RecvChunk(buf, i + 1, <<>>, m, type)

\* the while loop over the chunks left, then the end of the stream
RECURSIVE RecvLoop(_, _, _, _, _)
RecvLoop(chunks, err, line, m, type) ==
    IF chunks = <<>>
    THEN IF err THEN [ret |-> 1, m |-> m]
         ELSE IF line # <<>> THEN [ret |-> 0, m |-> linehandler(type, m, line).m]
         ELSE [ret |-> 0, m |-> m]
    ELSE LET c == RecvChunk(Head(chunks), 1, line, m, type)
         IN  IF c.done THEN [ret |-> 0, m |-> c.m]
             ELSE RecvLoop(Tail(chunks), err, c.line, c.m, type)

recvcontent(resp, type, m) == RecvLoop(resp.chunks, resp.err, <<>>, m, type)

(***************************************************************************)
(* The responses of the servers in this model.                             *)
(***************************************************************************)
EntryLine(type, name, sel, host, port) ==
    <<type>> \o name \o <<TAB>> \o sel \o <<TAB>> \o host \o <<TAB>> \o port
    \o <<CR, LF>>

LineA == EntryLine("1", <<"A">>, <<"/", "a">>, <<"h">>, <<"7", "0">>)
LineB == EntryLine("0", <<"B">>, <<"b">>, <<"g">>, <<"7">>)
LineT == EntryLine("i", <<"T">>, <<>>, <<"x">>, <<"0">>)
LineBad == <<"1", "C", TAB, "c", CR, LF>>
LineEnd == <<".", CR, LF>>

\* the responses a server gives, by name: a menu ended by the terminator
\* line; entries in two chunks with a malformed line, ended by the close of
\* the stream; one entry and then a receive error
ResponseNames == {"menu", "split", "cut"}

Response(n) ==
    CASE n = "menu" -> [chunks |-> <<LineT \o LineA \o LineEnd>>, err |-> FALSE]
      [] n = "split" -> [chunks |-> <<Take(LineA \o LineBad \o LineB, 4),
                                      Drop(LineA \o LineBad \o LineB, 4)>>,
                         err |-> FALSE]
      [] n = "cut" -> [chunks |-> <<LineB>>, err |-> TRUE]
      [] OTHER -> [chunks |-> <<>>, err |-> FALSE]

Outcomes ==
    { [kind |-> k, resp |-> "none"] : k \in {"resolve", "connect", "send"} }
    \cup { [kind |-> "recv", resp |-> n] : n \in ResponseNames }

(***************************************************************************)
(* sendreq: the buffer and length given to send.                           *)
(***************************************************************************)
sendreq(sel) ==
    LET reqlen == Len(sel) + 3
        req == Take(sel \o <<CR, LF>>, reqlen - 1) \o <<NUL>>
    IN  Take(req, reqlen)

(***************************************************************************)
(* fetch under one outcome of the network: "resolve" (getaddrinfo fails),  *)
(* "connect" (no candidate connects), "send" (send writes short), or       *)
(* "recv" with the response the server gives.                              *)
(***************************************************************************)
\* fetch from the return of recvcontent on, req the request sent
fetchAfterRecv(r, req, m) ==
    IF r.ret # 0
    THEN [ret |-> 1, m |-> r.m, sent |-> <<req>>, conn |-> "closed"]
    ELSE [ret |-> 0, m |-> r.m, sent |-> <<req>>, conn |-> "open"]

fetch(out, sel, type, m) ==
    IF out.kind = "resolve"
    THEN [ret |-> 1, m |-> m, sent |-> <<>>, conn |-> "none"]
    ELSE IF out.kind = "connect"
    THEN [ret |-> 1, m |-> m, sent |-> <<>>, conn |-> "closed"]
    ELSE IF out.kind = "send"
    THEN [ret |-> 1, m |-> m, sent |-> <<sendreq(sel)>>, conn |-> "closed"]
    ELSE fetchAfterRecv(recvcontent(Response(out.resp), type, m), sendreq(sel), m)

(***************************************************************************)
(* navigate, from the globals (m the menu, h the history, t the title):    *)
(* the globals it leaves behind and its return value.                      *)
(***************************************************************************)
\* the cursor moved two slots on
AdvancePosByTwo(h) == [h EXCEPT !.pos = h.pos + 2]

\* hist.pos++
AdvancePos(h) == [h EXCEPT !.pos = h.pos + 1]

\* navigate's if (addhist) block, buf the formatted title
recordVisit(h, type, buf, sel, host, port) ==
    AdvancePos(menuadd(menutrunc(h, h.pos), type, buf, sel, host, port))

\* navigate after fetch recording the visit whatever addhist says
navigateAfterFetchIgnoresAddhist(f, buf, h, t, type, sel, host, port, addhist) ==
    IF f.ret # 0
    THEN [ret |-> 1, menu |-> f.m, hist |-> h, title |-> t,
          sent |-> f.sent, conn |-> f.conn]
    ELSE [ret |-> 0, menu |-> f.m,
          hist |-> recordVisit(h, type, buf, sel, host, port),
          title |-> buf, sent |-> f.sent, conn |-> f.conn]

\* navigate after fetch setting the title and recording the visit before it
\* looks at what fetch returned
navigateAfterFetchRecordsFirst(f, buf, h, t, type, sel, host, port, addhist) ==
    [ret |-> IF f.ret # 0 THEN 1 ELSE 0, menu |-> f.m,
     hist |-> IF addhist = 1 THEN recordVisit(h, type, buf, sel, host, port) ELSE h,
     title |-> buf, sent |-> f.sent, conn |-> f.conn]

\* navigate from the return of fetch (f) on, buf the title fmturl makes
navigateAfterFetch(f, buf, h, t, type, sel, host, port, addhist) ==
    IF f.ret # 0
    THEN [ret |-> 1, menu |-> f.m, hist |-> h, title |-> t,
          sent |-> f.sent, conn |-> f.conn]
    ELSE [ret |-> 0, menu |-> f.m,
          hist |-> IF addhist = 1
                   THEN recordVisit(h, type, buf, sel, host, port)
                   ELSE h,
          title |-> buf, sent |-> f.sent, conn |-> f.conn]

navigate(m, h, t, type, sel, host, port, addhist, out) ==
    navigateAfterFetch(fetch(out, sel, type, menuclear(m)),
                       fmturl(TitleBufLen, type, sel, host, port),
                       h, t, type, sel, host, port, addhist)

(***************************************************************************)
(* size_t arithmetic of back: 64-bit values as four 16-bit limbs, most     *)
(* significant first, so that a subtraction wraps modulo 2^64.             *)
(***************************************************************************)
LimbBase == 256 * 256

\* (size_t)n for 0 <= n < 2^31
SizeOfNat(n) == <<0, 0, n \div LimbBase, n % LimbBase>>

\* a - b modulo 2^64, limb by limb with borrow
SizeSubLimbs(a, b) ==
    LET r4 == a[4] - b[4]
        b4 == IF r4 < 0 THEN 1 ELSE 0
        r3 == a[3] - b[3] - b4
        b3 == IF r3 < 0 THEN 1 ELSE 0
        r2 == a[2] - b[2] - b3
        b2 == IF r2 < 0 THEN 1 ELSE 0
        r1 == a[1] - b[1] - b2
    IN  <<r1 % LimbBase, r2 % LimbBase, r3 % LimbBase, r4 % LimbBase>>

\* (size_t)d for an int d: a negative d converts to 2^64 + d
SizeOfInt(d) ==
    IF d >= 0 THEN SizeOfNat(d)
    ELSE SizeSubLimbs(SizeOfNat(0), SizeOfNat(0 - d))

\* the size_t value s is below 2^31, so an Integer holds it
SizeFits(s) == s[1] = 0 /\ s[2] = 0 /\ s[3] < 32768

SizeVal(s) == s[3] * LimbBase + s[4]

\* s >= n for a size_t s and 0 <= n < 2^31
SizeGE(s, n) == ~SizeFits(s) \/ SizeVal(s) >= n

\* hist.pos - a.d, the int converted to size_t
PosMinus(pos, d) == SizeSubLimbs(SizeOfNat(pos), SizeOfInt(d))

(***************************************************************************)
(* The handlers.  Each runs to completion: navigate blocks on its fetch.   *)
(***************************************************************************)
MaxLog == 4      \* handlers stop once this many history events are logged
MaxDelta == 2    \* back is called with -MaxDelta..MaxDelta
MaxIndex == 2    \* gotoselector is called with -1..MaxIndex

Deltas == (0 - MaxDelta)..MaxDelta
Indices == (0 - 1)..MaxIndex

NavUrls ==
    { <<"h">>,
      <<"h", ":", "7", "/", "0", "b">>,
      <<"h", ":", "x">> }

\* the value read from m->items[i], i counted from 0: a slot that was
\* released or never written reads as anything
GarbageItems ==
    { Item("1", <<>>, <<>>, <<>>, 0), Item("0", <<"?">>, <<"?">>, <<"?">>, 1) }

ItemAt(m, i) ==
    IF i >= 0 /\ i < m.len /\ m.items[i + 1] # Freed
    THEN {m.items[i + 1]}
    ELSE GarbageItems

Loc(type, sel, host, port) ==
    [type |-> type, sel |-> sel, host |-> host, port |-> port]

\* the globals and the record of the call once navigate has returned r
AfterNavigate(r, op, arg, ev, nav, rec) ==
    /\ menu' = r.menu
    /\ hist' = r.hist
    /\ title' = r.title
    /\ sent' = r.sent
    /\ conn' = r.conn
    /\ call' = [op |-> op, arg |-> arg, nav |-> <<[nav EXCEPT !.ret = r.ret]>>]
    /\ log' = IF rec /\ (nav.addhist = 0 \/ r.ret = 0) THEN Append(log, ev) ELSE log

\* navigate called by a handler, with the history h the handler left;
\* rec: the event is logged
Navigating(op, arg, d, h, type, sel, host, port, addhist, out, rec) ==
    AfterNavigate(navigate(menu, h, title, type, sel, host, port, addhist, out),
                  op, arg,
                  [op |-> IF addhist = 1 THEN "visit" ELSE "back", d |-> d,
                   loc |-> Loc(type, sel, host, port)],
                  [type |-> type, sel |-> sel, host |-> host, port |-> port,
                   addhist |-> addhist, out |-> out, ret |-> 0],
                  rec)

\* a handler that returns before calling navigate
Returning(op, arg) ==
    /\ call' = [op |-> op, arg |-> arg, nav |-> <<>>]
    /\ sent' = <<>>
    /\ conn' = "none"
    /\ UNCHANGED <<menu, hist, title, log>>

\* gotourl from the return of parseurl (p) on
gotourlParsed(p, u, out, rec) ==
    IF p.ret # 0
    THEN Returning("gotourl", u)
    ELSE Navigating("gotourl", u, 0, hist, p.type, p.sel, p.host, p.port, 1, out,
                    rec)

gotourl(u, out, rec) ==
    /\ Len(log) < MaxLog
    /\ gotourlParsed(parseurl(u), u, out, rec)
    /\ UNCHANGED <<parsevars, recvvars, linevars>>

\* gotoselector without the check for an 'i' item
gotoselectorNoInfoCheck(d, out, rec) ==
    /\ call.op # "main"
    /\ Len(log) < MaxLog
    /\ IF d < 0 \/ d >= menu.len
       THEN Returning("gotoselector", d)
       ELSE \E i \in ItemAt(menu, d) :
               Navigating("gotoselector", d, 0, hist, i.type, i.sel, i.host,
                          i.port, 1, out, rec)
    /\ UNCHANGED <<parsevars, recvvars, linevars>>

gotoselector(d, out, rec) ==
    /\ call.op # "main"
    /\ Len(log) < MaxLog
    /\ IF d < 0 \/ d >= menu.len
       THEN Returning("gotoselector", d)
       ELSE \E i \in ItemAt(menu, d) :
               IF i.type = "i"
               THEN Returning("gotoselector", d)
               ELSE Navigating("gotoselector", d, 0, hist, i.type, i.sel, i.host,
                               i.port, 1, out, rec)
    /\ UNCHANGED <<parsevars, recvvars, linevars>>

\* back's early return without the check of a forward step
BackRefusesNoForwardCheck(h, d) ==
    IF d >= 0
    THEN h.pos < d \/ SizeGE(PosMinus(h.pos, d), h.len)
    ELSE FALSE

\* back's early return without the comparison with the length for a
\* non-negative delta
BackRefusesNoLengthCheck(h, d) ==
    IF d >= 0
    THEN h.pos < d
    ELSE SizeGE(PosMinus(h.pos, d), h.len)

\* back's early return
BackRefuses(h, d) ==
    IF d >= 0
    THEN h.pos < d \/ SizeGE(PosMinus(h.pos, d), h.len)
    ELSE SizeGE(PosMinus(h.pos, d), h.len)

\* back from hist.pos -= a.d on, h the history with the cursor moved
backReplay(h, d, out, rec) ==
    \E i \in ItemAt(h, h.pos) :
       Navigating("back", d, d, h, i.type, i.sel, i.host, i.port, 0, out, rec)

back(d, out, rec) ==
    /\ call.op # "main"
    /\ Len(log) < MaxLog
    /\ IF BackRefuses(hist, d)
       THEN Returning("back", d)
       ELSE backReplay([hist EXCEPT !.pos = SizeVal(PosMinus(hist.pos, d))], d,
                       out, rec)
    /\ UNCHANGED <<parsevars, recvvars, linevars>>

(***************************************************************************)
(* SpecRecv: recvcontent on a response whose byte stream recv returns in   *)
(* chunks.  The response is a sequence of lines, each named; recv splits   *)
(* the stream at the offsets in rcuts and returns at most MaxChunk bytes   *)
(* at a time.                                                              *)
(***************************************************************************)
MaxChunk == 48    \* recv returns at most this many bytes
MaxTail == 48     \* the chosen offsets fall in the last MaxTail bytes

\* n bytes c
Repeat(c, n) == [i \in 1..n |-> c]

\* an entry line that fills the line buffer: LineBufSize - 1 bytes before CR LF
MaxName == Repeat("m", LineBufSize - 10)
LineMax == EntryLine("1", MaxName, <<"/", "a">>, <<"h">>, <<"7", "0">>)

\* a text line three bytes longer than the line buffer holds
LineLong == Repeat("x", LineBufSize - 1) \o <<"z", "y", "y", CR, LF>>

LinePort ==
    EntryLine("1", <<"P">>, <<"p">>, <<"h">>, <<"9", "9", "9", "9", "9">>)

\* the lines a response is made of, by name; "raw" is an entry the server
\* does not end with CR LF
RecvLine(n) ==
    CASE n = "A" -> LineA
      [] n = "B" -> LineB
      [] n = "T" -> LineT
      [] n = "max" -> LineMax
      [] n = "bad" -> LineBad
      [] n = "port" -> LinePort
      [] n = "empty" -> <<CR, LF>>
      [] n = "long" -> LineLong
      [] n = "raw" -> Take(LineA, Len(LineA) - 2)
      [] n = "end" -> LineEnd
      [] OTHER -> <<>>

RecvStreams ==
    { <<"T", "A", "end">>,
      <<"A", "B", "end", "B">>,
      <<"A", "bad", "empty", "port", "B", "end">>,
      <<"B", "raw">>,
      <<"long", "A", "end">>,
      <<"max", "B", "end">> }

RECURSIVE StreamBytes(_)
StreamBytes(names) ==
    IF names = <<>> THEN <<>>
    ELSE RecvLine(Head(names)) \o StreamBytes(Tail(names))

\* the offsets at which this model lets recv split a stream of len bytes
CutPoints(len) == { i \in 1..(len - 1) : len - i <= MaxTail }

\* recv splits the stream at none, one or two of them
CutSets(len) ==
    {{}} \cup { {a, b} : a \in CutPoints(len), b \in CutPoints(len) }

\* the offsets at which recv returns: the chosen ones, and every MaxChunk
\* bytes
ChunkEnds(len, cuts) ==
    cuts \cup { k * MaxChunk : k \in 1..((len - 1) \div MaxChunk) }

\* what the calls of recv return from offset from on, in order
RECURSIVE Chunks(_, _, _)
Chunks(bytes, from, ends) ==
    IF \A e \in ends : e <= from
    THEN <<Drop(bytes, from)>>
    ELSE LET e == CHOOSE x \in ends : x > from /\ \A y \in ends : y > from => x <= y
         IN  <<SubSeq(bytes, from + 1, e)>> \o Chunks(bytes, e, ends)

\* the server's response as recv returns it, the stream closed at its end
RecvResponse(names, cuts) ==
    [chunks |-> Chunks(StreamBytes(names), 0,
                       ChunkEnds(Len(StreamBytes(names)), cuts)),
     err |-> FALSE]

Recv ==
    /\ recvd = <<>>
    /\ rlines # <<>>
    /\ recvd' = <<recvcontent(RecvResponse(rlines, rcuts), rtype, EmptyMenu)>>
    /\ UNCHANGED <<rlines, rcuts, rtype>>
    /\ UNCHANGED <<navvars, parsevars, linevars>>

(***************************************************************************)
(* SpecLine: menuaddline on one line, with the pointer it gives to free.   *)
(* The buffer estrdup returns holds the line after its type byte; a        *)
(* pointer is its offset into that buffer, <<>> is NULL.                   *)
(***************************************************************************)
\* linecp at the label out, after the calls of strsep that ran
menuaddlineFree(ln) ==
    LET name == strsep(<<Tail(ln)>>)
        sel == strsep(name.rest)
        host == strsep(sel.rest)
        portstr == strsep(host.rest)
        linecp == IF name.tok = <<>> THEN name.rest
                  ELSE IF sel.tok = <<>> THEN sel.rest
                  ELSE IF host.tok = <<>> THEN host.rest
                  ELSE portstr.rest
    IN  IF linecp = <<>> THEN <<>>
        ELSE <<Len(Tail(ln)) - Len(linecp[1])>>

\* how a call of menuaddline ends: free of a pointer into the interior of
\* an allocation is undefined, the call returns or the process is killed
FreeOutcomes(ln) ==
    IF ln # <<>> /\ menuaddlineFree(ln) # <<>> /\ menuaddlineFree(ln) # <<0>>
    THEN {"returned", "killed"}
    ELSE {"returned"}

LineTypes == {"1", "0", "i"}
LineNames == {<<>>, <<"A">>}
LinePorts == {<<"7", "0">>, <<"0">>, <<"x">>, <<"9", "9", "9", "9", "9">>}
MaxFields == 5    \* a line has up to this many tab-separated fields

\* the first nf of the fields name, selector, host, port and one more
LineFields(nf, name, port) ==
    name
    \o (IF nf >= 2 THEN <<TAB, "/", "a">> ELSE <<>>)
    \o (IF nf >= 3 THEN <<TAB, "h">> ELSE <<>>)
    \o (IF nf >= 4 THEN <<TAB>> \o port ELSE <<>>)
    \o (IF nf >= 5 THEN <<TAB, "+">> ELSE <<>>)

Lines ==
    {<<>>}
    \cup { <<t>> \o LineFields(nf, name, port) :
             t \in LineTypes, nf \in 1..MaxFields, name \in LineNames,
             port \in LinePorts }

MenuAddLine ==
    /\ added = <<>>
    /\ mline \in Lines
    /\ \E o \in FreeOutcomes(mline) :
          added' = <<[alloc |-> mline # <<>>,
                      free |-> IF mline = <<>> THEN <<>> ELSE menuaddlineFree(mline),
                      freed |-> mline # <<>>,
                      end |-> o,
                      res |-> menuaddline(EmptyMenu, mline)]>>
    /\ UNCHANGED mline
    /\ UNCHANGED <<navvars, parsevars, recvvars>>

(***************************************************************************)
(* The specifications                                                      *)
(***************************************************************************)
GophTitle == <<"g", "o", "p", "h">>    \* settitle("goph") in xinit

NoForm ==
    [scheme |-> FALSE, host |-> <<"h">>, port |-> <<>>, path |-> FALSE,
     type |-> "1", sel |-> <<>>]

\* no line has been given to menuaddline
NoLine == <<"none">>

\* main after xinit, before its gotourl
Init ==
    /\ menu = EmptyMenu
    /\ hist = EmptyMenu
    /\ title = GophTitle
    /\ sent = <<>>
    /\ conn = "none"
    /\ call = [op |-> "main", arg |-> 0, nav |-> <<>>]
    /\ log = <<>>
    /\ url = <<>>
    /\ form = NoForm
    /\ parsed = <<>>
    /\ fmt = <<>>
    /\ rlines = <<>>
    /\ rcuts = {}
    /\ rtype = "1"
    /\ recvd = <<>>
    /\ mline = NoLine
    /\ added = <<>>

Next ==
    \/ \E u \in NavUrls, out \in Outcomes : gotourl(u, out, FALSE)
    \/ \E d \in Indices, out \in Outcomes : gotoselector(d, out, FALSE)
    \/ \E d \in Deltas, out \in Outcomes : back(d, out, FALSE)

Spec == Init /\ [][Next]_vars

\* the same handlers with the history events logged, the network either
\* refusing the connection or answering with a menu
HistOutcomes ==
    { [kind |-> "connect", resp |-> "none"], [kind |-> "recv", resp |-> "menu"] }

NextHist ==
    \/ \E u \in NavUrls, out \in HistOutcomes : gotourl(u, out, TRUE)
    \/ \E d \in Indices, out \in HistOutcomes : gotoselector(d, out, TRUE)
    \/ \E d \in Deltas, out \in HistOutcomes : back(d, out, TRUE)

SpecHist == Init /\ [][NextHist]_vars

InitParse ==
    /\ menu = EmptyMenu
    /\ hist = EmptyMenu
    /\ title = GophTitle
    /\ sent = <<>>
    /\ conn = "none"
    /\ call = [op |-> "main", arg |-> 0, nav |-> <<>>]
    /\ log = <<>>
    /\ form \in Forms
    /\ url = BuildUrl(form)
    /\ parsed = <<>>
    /\ fmt = <<>>
    /\ rlines = <<>>
    /\ rcuts = {}
    /\ rtype = "1"
    /\ recvd = <<>>
    /\ mline = NoLine
    /\ added = <<>>

NextParse == ParseUrl \/ FmtUrl

SpecParse == InitParse /\ [][NextParse]_vars

\* the globals of main after xinit, which the operations below leave alone
NavIdle ==
    /\ menu = EmptyMenu
    /\ hist = EmptyMenu
    /\ title = GophTitle
    /\ sent = <<>>
    /\ conn = "none"
    /\ call = [op |-> "main", arg |-> 0, nav |-> <<>>]
    /\ log = <<>>
    /\ url = <<>>
    /\ form = NoForm
    /\ parsed = <<>>
    /\ fmt = <<>>

InitRecv ==
    /\ NavIdle
    /\ rlines \in RecvStreams
    /\ rcuts \in CutSets(Len(StreamBytes(rlines)))
    /\ rtype \in {"1", "0"}
    /\ recvd = <<>>
    /\ mline = NoLine
    /\ added = <<>>

NextRecv == Recv

SpecRecv == InitRecv /\ [][NextRecv]_vars

InitLine ==
    /\ NavIdle
    /\ rlines = <<>>
    /\ rcuts = {}
    /\ rtype = "1"
    /\ recvd = <<>>
    /\ mline \in Lines
    /\ added = <<>>

NextLine == MenuAddLine

SpecLine == InitLine /\ [][NextLine]_vars

(***************************************************************************)
(* Properties of the history                                               *)
(***************************************************************************)
ItemLoc(i) == Loc(i.type, i.sel, i.host, i.port)

\* the locations of the history's entries, oldest first
HistLocs == [i \in 1..hist.len |-> ItemLoc(hist.items[i])]

\* C1: from an empty history, successful new visits to A then B, then
\* back(1), then a successful new visit to C (A, B, C distinct): back(1)
\* re-fetched A's location and the history reads [A, C], length 2.
C1_NewVisitAfterBackDiscardsOnlyForward ==
    (/\ Len(log) = 4
     /\ log[1].op = "visit"
     /\ log[2].op = "visit"
     /\ log[3].op = "back"
     /\ log[3].d = 1
     /\ log[4].op = "visit"
     /\ log[1].loc # log[2].loc
     /\ log[4].loc \notin {log[1].loc, log[2].loc})
    => /\ log[3].loc = log[1].loc
       /\ hist.len = 2
       /\ HistLocs = <<log[1].loc, log[4].loc>>

\* C2: from an empty history, k consecutive successful new visits with no
\* back in between leave exactly k entries, in visit order.
C2_ConsecutiveVisitsAllKept ==
    (\A i \in 1..Len(log) : log[i].op = "visit")
    => /\ hist.len = Len(log)
       /\ HistLocs = [i \in 1..Len(log) |-> log[i].loc]

(***************************************************************************)
(* Properties of parseurl and fmturl                                       *)
(***************************************************************************)
\* the port a form's port string names: none is the default, 99999 is invalid
FormPortNum(p) ==
    CASE p = <<>> -> 70
      [] p = <<"7", "0">> -> 70
      [] p = <<"7">> -> 7
      [] p = <<"1", "0", "5">> -> 105
      [] OTHER -> 0 - 1

\* the form is ["gopher://"] host [":" port] "/" T selector with a valid port
ValidPathForm == form.path /\ FormPortNum(form.port) >= 0

\* C3: for a location string ["gopher://"] host [":" port] "/" T selector,
\* parseurl returns type T and the selector after T, with the host and the
\* port (70 when absent); so gopher://example.com/1/foo gives type '1',
\* selector "/foo", host "example.com", port 70.
C3_ParseTakesTypeAfterSlash ==
    (parsed # <<>> /\ ValidPathForm)
    => /\ parsed[1].ret = 0
       /\ parsed[1].type = form.type
       /\ parsed[1].sel = form.sel
       /\ parsed[1].host = form.host
       /\ parsed[1].port = FormPortNum(form.port)

\* C4: for a valid string host[:port]/Tselector, fmturl of what parseurl
\* returned is host[:port]/T+selector, ":port" omitted exactly when the port
\* is 70.
C4_ParseFormatRoundTrip ==
    (fmt # <<>> /\ ValidPathForm)
    => fmt[1] = form.host
                \o (IF FormPortNum(form.port) # 70 THEN <<":">> \o form.port ELSE <<>>)
                \o <<"/", form.type>> \o form.sel

(***************************************************************************)
(* Properties of the handlers.  call' names the handler a step ran, so an  *)
(* action property about call' is about every step of that handler.        *)
(***************************************************************************)
Navigated == call.nav # <<>>

FetchFailed == Navigated /\ call.nav[1].ret = 1

\* back(d) from history h would put the cursor outside [0, length]
OutsideHistory(h, d) == h.pos - d < 0 \/ h.pos - d > h.len

\* C5: back(delta) with a delta, positive or negative, that would move the
\* cursor outside [0, length] is a no-op: no fetch is started, and the
\* cursor, the history, the menu and the title are unchanged.
C5_BackOutsideHistoryIsNoOp ==
    [][\A d \in Deltas :
          (call'.op = "back" /\ call'.arg = d /\ OutsideHistory(hist, d))
          => /\ call'.nav = <<>>
             /\ sent' = <<>>
             /\ conn' = "none"
             /\ UNCHANGED <<menu, hist, title>>]_vars

\* a back beyond the newest entry of a two-entry history was refused
C5_Witness ==
    /\ call.op = "back"
    /\ call.nav = <<>>
    /\ hist.len = 2
    /\ call.arg < 0
    /\ OutsideHistory(hist, call.arg)

\* C6: a back call, refused or replaying a fetch that succeeds or fails,
\* never changes the history's length or any history entry; only the cursor
\* may move.
C6_BackKeepsHistoryEntries ==
    [][call'.op = "back" => (hist'.len = hist.len /\ hist'.items = hist.items)]_vars

\* a back replayed an entry of a two-entry history and its fetch succeeded
C6_Witness ==
    /\ call.op = "back"
    /\ Navigated
    /\ call.nav[1].ret = 0
    /\ hist.len = 2

\* C7 as stated: after any navigation whose fetch fails, the current menu is
\* empty.
C7_FailedFetchLeavesMenuEmpty == FetchFailed => menu.len = 0

\* C7 as amended: after a navigation whose fetch fails with a resolve,
\* connect or send error the current menu is empty; after a receive error it
\* holds none of the previous page's items, only the items of the failed
\* response's lines handled before the error.
C7_FailedFetchMenu ==
    FetchFailed
    => IF call.nav[1].out.kind \in {"resolve", "connect", "send"}
       THEN menu = EmptyMenu
       ELSE menu = recvcontent(Response(call.nav[1].out.resp), call.nav[1].type,
                               EmptyMenu).m

\* a receive error left an item of the failed response in the menu
C7_Witness ==
    /\ FetchFailed
    /\ call.nav[1].out.kind = "recv"
    /\ menu.len = 1

\* C8: when a gotourl or gotoselector navigation fails at any fetch step, the
\* title, the history entries, the history length and the cursor are as they
\* were before the attempt.
C8_FailedVisitKeepsTitleAndHistory ==
    [][(call'.op \in {"gotourl", "gotoselector"} /\ call'.nav # <<>>
        /\ call'.nav[1].ret = 1)
       => UNCHANGED <<title, hist>>]_vars

\* a new visit failed with a page shown and a history recorded
C8_Witness ==
    /\ call.op \in {"gotourl", "gotoselector"}
    /\ FetchFailed
    /\ hist.len = 2
    /\ title # GophTitle

\* C9: gotoselector(index) is a no-op when index is negative, index >= the
\* menu length or the item at index has type 'i'; otherwise it navigates to
\* that item's type, selector, host and port with history recording.
C9_SelectNoOpOrNavigate ==
    [][\A d \in Indices :
          (call'.op = "gotoselector" /\ call'.arg = d)
          => IF d < 0 \/ d >= menu.len \/ menu.items[d + 1].type = "i"
             THEN /\ call'.nav = <<>>
                  /\ sent' = <<>>
                  /\ conn' = "none"
                  /\ UNCHANGED <<menu, title, hist>>
             ELSE /\ call'.nav # <<>>
                  /\ ItemLoc(call'.nav[1]) = ItemLoc(menu.items[d + 1])
                  /\ call'.nav[1].addhist = 1
                  /\ call'.nav[1].ret = 0
                     => /\ hist'.len >= 1
                        /\ ItemLoc(hist'.items[hist'.len])
                           = ItemLoc(menu.items[d + 1])]_vars

\* an 'i' item was selected and nothing happened
C9_Witness ==
    /\ call.op = "gotoselector"
    /\ call.nav = <<>>
    /\ call.arg >= 0
    /\ call.arg < menu.len
    /\ menu.items[call.arg + 1].type = "i"

\* C10: the bytes fetch writes are the selector followed by CR LF and nothing
\* else (selector length + 2 bytes), in a single write.
C10_RequestIsSelectorCRLF ==
    (Navigated /\ sent # <<>>)
    => /\ Len(sent) = 1
       /\ sent[1] = call.nav[1].sel \o <<CR, LF>>
       /\ Len(sent[1]) = Len(call.nav[1].sel) + 2

\* C12: every connection fetch opens is closed before fetch returns, on
\* every exit path (success by the terminator line, success by the end of
\* the stream, send error, receive error): no socket fetch opened is open
\* after it returns.
C12_FetchClosesConnection == Navigated => conn # "open"

\* C13: after every sequence of gotourl, gotoselector and back, whenever the
\* history is non-empty the cursor is the index of the displayed page's
\* history entry plus one.  The displayed page is the one the latest
\* successful navigate fetched.
C13_CursorIsCurrentEntryPlusOne ==
    (Navigated /\ call.nav[1].ret = 0 /\ hist.len > 0)
    => \E i \in 0..(hist.len - 1) :
          /\ ItemLoc(hist.items[i + 1]) = ItemLoc(call.nav[1])
          /\ hist.pos = i + 1

\* C14: in every reachable state, after any sequence of gotourl,
\* gotoselector and back, successful or failed, the history cursor is at most
\* the history length.
C14_CursorWithinLength == hist.pos <= hist.len

\* a back was refused with the cursor at the length of a one-entry history
C14_Witness ==
    /\ call.op = "back"
    /\ call.nav = <<>>
    /\ hist.len = 1
    /\ hist.pos = hist.len

\* C18: back and forward are inverse: in every reachable history state, if
\* back(d) is accepted (moves the cursor and replays) for some d > 0, an
\* immediately following back(-d) is accepted too and restores the cursor to
\* its value before the first call.
C18_BackThenForwardRestoresCursor ==
    [][\A d \in 1..MaxDelta :
          (/\ call.op = "back"
           /\ call.arg = d
           /\ call.nav # <<>>
           /\ call'.op = "back"
           /\ call'.arg = 0 - d)
          => /\ call'.nav # <<>>
             /\ hist'.pos = hist.pos + d]_vars

\* the largest int: 2^31 - 1
IntMax == SHRT_MAX * LimbBase + (LimbBase - 1)

\* C19: for every reachable history state and every int delta (negative
\* ones included, whose subtraction from the unsigned cursor wraps modulo
\* 2^64), back reads hist.items[position] only with position below the
\* history length: it never indexes the array out of bounds or reads a
\* released entry.  A back that navigated read the entry at the cursor it
\* left, and a back by the largest int, back or forward, is refused.
C19_BackReadsWithinHistory ==
    [][/\ (call'.op = "back" /\ call'.nav # <<>>)
          => /\ hist'.pos < hist'.len
             /\ hist'.items[hist'.pos + 1] # Freed
             /\ ItemLoc(call'.nav[1]) = ItemLoc(hist'.items[hist'.pos + 1])
       /\ \A d \in {IntMax, 0 - IntMax} : BackRefuses(hist', d)]_vars

\* a back with a negative delta was accepted and read the newest entry
C19_Witness ==
    /\ call.op = "back"
    /\ call.arg < 0
    /\ Navigated
    /\ hist.pos = hist.len - 1

(***************************************************************************)
(* Properties of recvcontent.  In a fetch of a type other than '1' the     *)
(* handler is menuaddtextline, which appends every line it is given: the   *)
(* names of the menu's items are then the lines recvcontent handed to its  *)
(* handler, in order.                                                      *)
(***************************************************************************)
\* the well-formed entry lines among the named lines, and the items they give
EntryNames == {"A", "B", "T", "max"}

EntryItem(n) ==
    CASE n = "A" -> Item("1", <<"A">>, <<"/", "a">>, <<"h">>, 70)
      [] n = "B" -> Item("0", <<"B">>, <<"b">>, <<"g">>, 7)
      [] n = "T" -> Item("i", <<"T">>, <<>>, <<"x">>, 0)
      [] n = "max" -> Item("1", MaxName, <<"/", "a">>, <<"h">>, 70)
      [] OTHER -> Freed

\* the index of the response's first terminator line, 0 when it has none
TermAt(names) ==
    IF \E k \in 1..Len(names) : names[k] = "end"
    THEN CHOOSE k \in 1..Len(names) :
            names[k] = "end" /\ \A j \in 1..(k - 1) : names[j] # "end"
    ELSE 0

\* the lines before the terminator, or all of them when there is none
BeforeTerm(names) ==
    IF TermAt(names) = 0 THEN names ELSE SubSeq(names, 1, TermAt(names) - 1)

\* well-formed entry lines followed by the terminator line
EntriesThenTerm(names) ==
    /\ TermAt(names) > 0
    /\ \A j \in 1..(TermAt(names) - 1) : names[j] \in EntryNames

\* a line without the CR LF that ends it
LineText(n) == Take(RecvLine(n), Len(RecvLine(n)) - 2)

NonEmptyLine(l) == l # <<>>

\* the lines handed to the handler of a text fetch
Delivered(m) == [i \in 1..m.len |-> m.items[i].name]

\* C11: for a response of well-formed entry lines (each at most 511 bytes,
\* each ended by CR LF) followed by the line ".", a type-'1' fetch yields,
\* under every split of the stream into chunks, a menu of exactly those
\* entries in response order; the handler is never given the terminator
\* line, and nothing after the terminator reaches it.
C11_TerminatedMenuUnderEverySplit ==
    (recvd # <<>> /\ EntriesThenTerm(rlines))
    => /\ recvd[1].ret = 0
       /\ rtype = "1"
          => /\ recvd[1].m.len = TermAt(rlines) - 1
             /\ recvd[1].m.items
                = [j \in 1..(TermAt(rlines) - 1) |-> EntryItem(rlines[j])]
       /\ rtype # "1"
          => SelectSeq(Delivered(recvd[1].m), NonEmptyLine)
             = [j \in 1..(TermAt(rlines) - 1) |-> LineText(rlines[j])]

\* two entries were fetched from a stream split between the CR and the LF
\* of the first, with a further entry after the terminator
C11_Witness ==
    /\ recvd # <<>>
    /\ rtype = "1"
    /\ rlines = <<"A", "B", "end", "B">>
    /\ Len(LineA) - 1 \in rcuts
    /\ recvd[1].m.len = 2

\* the offset of the last byte but one of line j: its CR when CR LF ends it
CROffset(names, j) == Len(StreamBytes(SubSeq(names, 1, j))) - 1

\* the text of line j, which "raw" has no CR LF after
TextOf(n) == IF n = "raw" THEN RecvLine(n) ELSE LineText(n)

\* the lines from line j on up to the terminator, each line whose CR is the
\* last byte of a chunk followed by an empty line
RECURSIVE LinesWithSplits(_, _, _)
LinesWithSplits(names, j, ends) ==
    IF j > Len(names) \/ names[j] = "end" THEN <<>>
    ELSE <<TextOf(names[j])>>
         \o (IF names[j] # "raw" /\ CROffset(names, j) \in ends
             THEN << <<>> >> ELSE <<>>)
         \o LinesWithSplits(names, j + 1, ends)

\* C15: a CR immediately followed by LF inside one chunk is a single line
\* boundary; a CR that is the last byte of a chunk followed by an LF that is
\* the first byte of the next is two boundaries, the handler receiving one
\* more, empty, line: the lines delivered for one byte stream depend on how
\* it is split into chunks.
C15_SplitCRLFGivesEmptyLine ==
    (recvd # <<>> /\ rtype # "1" /\ \A j \in 1..Len(rlines) : rlines[j] # "long")
    => Delivered(recvd[1].m)
       = LinesWithSplits(rlines, 1,
                         ChunkEnds(Len(StreamBytes(rlines)), rcuts))

\* a stream of two lines and the terminator, split between the CR and the
\* LF of the first line, gave the handler three lines
C15_Witness ==
    /\ recvd # <<>>
    /\ rtype = "0"
    /\ rlines = <<"T", "A", "end">>
    /\ rcuts = {Len(LineT) - 1}
    /\ Delivered(recvd[1].m) = <<LineText("T"), <<>>, LineText("A")>>

\* the last n elements of s
LastN(s, n) == SubSeq(s, Len(s) - n + 1, Len(s))

\* C16: when a line exceeds the maximum line length it is truncated and the
\* condition is not fatal: the handler receives the truncated line (its
\* leading bytes up to the limit), buffering resets, the fetch does not
\* abort, and every later line is delivered to the handler unchanged.
C16_LongLineDeliveredTruncated ==
    (recvd # <<>> /\ rtype # "1" /\ rlines = <<"long", "A", "end">>)
    => /\ recvd[1].ret = 0
       /\ SelectSeq(Delivered(recvd[1].m), NonEmptyLine) # <<>>
       /\ Head(SelectSeq(Delivered(recvd[1].m), NonEmptyLine))
          = Take(LineLong, LineBufSize - 1)
       /\ LastN(SelectSeq(Delivered(recvd[1].m), NonEmptyLine), 1)
          = <<LineText("A")>>

\* the malformed lines among the named lines: a missing field, an empty
\* line, a port outside [0, 32767]
MalformedNames == {"bad", "empty", "port"}

IsWellFormed(n) == n \in EntryNames

\* the well-formed lines before the terminator, in order
WellFormedBeforeTerm(names) == SelectSeq(BeforeTerm(names), IsWellFormed)

C20_FreesTheDuplicatedBuffer ==
    (added # <<>> /\ added[1].alloc)
    => /\ added[1].freed
       /\ added[1].free = <<0>>

=============================================================================
